---- MODULE Spec2Model ----
(***************************************************************************)
(* A model of the recursive-descent core of src/tidyJSON.py: the cursor    *)
(* (json_str, index), the value dispatcher parse_json, the collection      *)
(* parser, the scalar parsers, the ErrorManager diagnostic and the         *)
(* facade's write-then-load round trip.                                    *)
(*                                                                         *)
(* Text is a sequence of one-character strings.  Python's call stack is    *)
(* the variable stack (head = innermost call); an exception unwinds it     *)
(* one frame per step.                                                     *)
(***************************************************************************)
EXTENDS Integers, Sequences, FiniteSets, TLC

VARIABLES
    json_input, \* TidyJSON.json_input: the text handed to the facade
    json_str,   \* TidyJSONParser.json_str: the text being parsed
    index,      \* TidyJSONParser.index: the cursor
    stack,      \* the active calls, innermost first
    ret,        \* the value the most recent inner call returned
    json_out,   \* the value of the outermost parse_json call, once it returned
    status,     \* "running" | "returned" | "raising" | "raised"
    err,        \* the exception in flight or delivered to the caller
    phase,      \* 1: parse of the input; 2: parse of the text encode wrote
    json,       \* TidyJSON.json: the value the facade keeps from phase 1
    file        \* the text TidyJSON.encode wrote to save_path

vars == <<json_input, json_str, index, stack, ret, json_out, status, err, phase, json, file>>

----------------------------------------------------------------------------
(* Bounds of the model *)

\* Longest input, counted in tokens of Tokens (at least 1).
MaxTokens == 4
\* Cap on the elements one collection may gather (keeps a loop that never
\* advances finite).
MaxElems == 5
\* Longest source text the diagnostic context is exercised on.
MaxCtxLen == 24

----------------------------------------------------------------------------
(* Small helpers *)

Max(a, b) == IF a >= b THEN a ELSE b
Min(a, b) == IF a <= b THEN a ELSE b

\* Python's s[a:b] on a text (0-based, negative indices count from the end,
\* both ends clamped, empty when the ends cross).
PySlice(s, a, b) ==
    LET n  == Len(s)
        a1 == IF a < 0 THEN Max(0, n + a) ELSE Min(a, n)
        b1 == IF b < 0 THEN Max(0, n + b) ELSE Min(b, n)
    IN  IF a1 >= b1 THEN <<>> ELSE SubSeq(s, a1 + 1, b1)

\* str.startswith(literal, at)
startswith(s, literal, at) == PySlice(s, at, at + Len(literal)) = literal

DigitChars == <<"0", "1", "2", "3", "4", "5", "6", "7", "8", "9">>
\* str.isdigit on one character of the model's alphabet
isdigit(c) == \E i \in 1..10 : DigitChars[i] = c
DigitVal(c) == (CHOOSE i \in 1..10 : DigitChars[i] = c) - 1

\* Characters int() and float() strip from both ends of their argument.
PyWhitespace == {" ", "\n"}

----------------------------------------------------------------------------
(* Python values, all of one record shape *)

Val(t, n, k, s, xs) == [tag |-> t, num |-> n, scale |-> k, str |-> s, items |-> xs]
Unset       == Val("unset", 0, 0, <<>>, <<>>)   \* no value yet
PyNone      == Val("None", 0, 0, <<>>, <<>>)
PyBool(b)   == Val("bool", IF b THEN 1 ELSE 0, 0, <<>>, <<>>)
PyInt(n)    == Val("int", n, 0, <<>>, <<>>)
\* the float m / 10^k, with k minimal
PyFloat(m, k) == Val("float", m, k, <<>>, <<>>)
PyStr(s)    == Val("str", 0, 0, s, <<>>)
PyList(xs)  == Val("list", 0, 0, <<>>, xs)
\* a dict as its items in insertion order, each <<key, value>>
PyDict(kvs) == Val("dict", 0, 0, <<>>, kvs)

----------------------------------------------------------------------------
(* The cursor *)

\* What get_char returns at end of input (Python's None)
None == "None"

get_char(s, i) == IF i < Len(s) THEN s[i + 1] ELSE None

\* skip_spaces_and_char: the index after the run of char and " " at i
RECURSIVE skip_spaces_and_char(_, _, _)
skip_spaces_and_char(s, i, char) ==
    IF get_char(s, i) \in {char, " "}
    THEN skip_spaces_and_char(s, i + 1, char)
    ELSE i

----------------------------------------------------------------------------
(* Diagnostics *)

INVALID_CHARACTER == "Invalid Character"
MISSING_BRACKET   == "Missing Bracket"
MISSING_QUOTE     == "Missing Quote"
UNEXPECTED_TOKEN  == "Unexpected Token"
TidyErrorType == {INVALID_CHARACTER, MISSING_BRACKET, MISSING_QUOTE, UNEXPECTED_TOKEN}

\* Width of the context window on each side of the error position
ContextRadius == 10

\* A mistaken variant: the left end is not clipped at 0.
get_context_unclipped(s, position) ==
    PySlice(s, position - ContextRadius, Min(Len(s), position + ContextRadius))

get_context(s, position) ==
    PySlice(s, Max(0, position - ContextRadius), Min(Len(s), position + ContextRadius))

ErrorManager(error_type, position, s) ==
    [error_type |-> error_type, position |-> position,
     error_context |-> get_context(s, position)]

\* An exception of Python itself: it is no ErrorManager and carries neither a
\* position nor a context.
PyException(name) == [error_type |-> name, position |-> -1, error_context |-> <<>>]
NoError == PyException("none")

----------------------------------------------------------------------------
(* int() and float() on a scanned token *)

RECURSIVE StripLeft(_)
StripLeft(s) ==
    IF s # <<>> /\ Head(s) \in PyWhitespace THEN StripLeft(Tail(s)) ELSE s

RECURSIVE StripRight(_)
StripRight(s) ==
    IF s # <<>> /\ s[Len(s)] \in PyWhitespace
    THEN StripRight(SubSeq(s, 1, Len(s) - 1))
    ELSE s

Strip(s) == StripRight(StripLeft(s))

Signed(s)   == s # <<>> /\ Head(s) \in {"-", "+"}
Unsigned(s) == IF Signed(s) THEN Tail(s) ELSE s
Sign(s)     == IF s # <<>> /\ Head(s) = "-" THEN -1 ELSE 1

AllDigits(s) == \A i \in 1..Len(s) : isdigit(s[i])

RECURSIVE DigitsValue(_)
DigitsValue(s) ==
    IF s = <<>> THEN 0
    ELSE 10 * DigitsValue(SubSeq(s, 1, Len(s) - 1)) + DigitVal(s[Len(s)])

\* int(tok) succeeds: optional sign, then one or more digits (the alphabet of
\* the model has no "_").
int_ok(tok) ==
    LET body == Unsigned(Strip(tok)) IN body # <<>> /\ AllDigits(body)

int_value(tok) ==
    LET t == Strip(tok) IN PyInt(Sign(t) * DigitsValue(Unsigned(t)))

Dots(s) == {i \in 1..Len(s) : s[i] = "."}

\* float(tok) succeeds, for a token that holds a ".": optional sign, digits
\* around exactly one ".", at least one digit.  (An exponent needs an "e"
\* next to a digit and inf/nan hold no ".": neither is a text of the model.)
float_ok(tok) ==
    LET body == Unsigned(Strip(tok)) IN
    /\ Cardinality(Dots(body)) = 1
    /\ Len(body) >= 2
    /\ \A i \in 1..Len(body) : body[i] = "." \/ isdigit(body[i])

RECURSIVE Normalize(_, _)
Normalize(m, k) ==
    IF k > 0 /\ m % 10 = 0 THEN Normalize(m \div 10, k - 1) ELSE PyFloat(m, k)

float_value(tok) ==
    LET t    == Strip(tok)
        body == Unsigned(t)
        dot  == CHOOSE i \in Dots(body) : TRUE
        a    == SubSeq(body, 1, dot - 1)
        b    == SubSeq(body, dot + 1, Len(body))
    IN  Normalize(Sign(t) * DigitsValue(a \o b), Len(b))

----------------------------------------------------------------------------
(* The scalar parsers, as functions of the text and the cursor.  Each gives *)
(* [index: the cursor afterwards, value, error: NoError or the exception]. *)

Outcome(i, v, e) == [index |-> i, value |-> v, error |-> e]

RECURSIVE ScanString(_, _)
ScanString(s, i) ==
    IF get_char(s, i) # "\"" /\ get_char(s, i) # None
    THEN ScanString(s, i + 1)
    ELSE i

parse_string(s, i) ==
    LET start == i + 1
        end   == ScanString(s, i + 1)
    IN  Outcome(end + 1, PyStr(PySlice(s, start, end)), NoError)

NumberStops == {None, ",", " ", "}", "]"}

RECURSIVE ScanNumber(_, _)
ScanNumber(s, i) ==
    IF get_char(s, i) \notin NumberStops THEN ScanNumber(s, i + 1) ELSE i

\* A mistaken variant: the scan also consumes the character it stopped at.
parse_number_past_stop(s, i) ==
    LET start   == i
        end     == ScanNumber(s, i)
        num_str == PySlice(s, start, end)
    IN  IF Dots(num_str) # {}
        THEN IF float_ok(num_str)
             THEN Outcome(end + 1, float_value(num_str), NoError)
             ELSE Outcome(end + 1, Unset, PyException("ValueError"))
        ELSE IF int_ok(num_str)
             THEN Outcome(end + 1, int_value(num_str), NoError)
             ELSE Outcome(end + 1, Unset, PyException("ValueError"))

parse_number(s, i) ==
    LET start   == i
        end     == ScanNumber(s, i)
        num_str == PySlice(s, start, end)
    IN  IF Dots(num_str) # {}
        THEN IF float_ok(num_str)
             THEN Outcome(end, float_value(num_str), NoError)
             ELSE Outcome(end, Unset, PyException("ValueError"))
        ELSE IF int_ok(num_str)
             THEN Outcome(end, int_value(num_str), NoError)
             ELSE Outcome(end, Unset, PyException("ValueError"))

LitTrue  == <<"t", "r", "u", "e">>
LitFalse == <<"f", "a", "l", "s", "e">>
LitNull  == <<"n", "u", "l", "l">>

parse_boolean_or_null(s, i) ==
    IF startswith(s, LitTrue, i) THEN Outcome(i + Len(LitTrue), PyBool(TRUE), NoError)
    ELSE IF startswith(s, LitFalse, i) THEN Outcome(i + Len(LitFalse), PyBool(FALSE), NoError)
    ELSE IF startswith(s, LitNull, i) THEN Outcome(i + Len(LitNull), PyNone, NoError)
    ELSE Outcome(i, Unset, ErrorManager(UNEXPECTED_TOKEN, i, s))

\* parse_object has a docstring and no statements: it returns None and
\* leaves the cursor where it was.
parse_object(s, i) == Outcome(i, PyNone, NoError)

----------------------------------------------------------------------------
(* json.dump(obj, fp, indent=4): the text TidyJSON.encode writes *)

RECURSIVE IntText(_)
IntText(n) ==
    IF n < 0 THEN <<"-">> \o IntText(-n)
    ELSE IF n < 10 THEN <<DigitChars[n + 1]>>
    ELSE IntText(n \div 10) \o <<DigitChars[(n % 10) + 1]>>

RECURSIVE Pow10(_)
Pow10(k) == IF k = 0 THEN 1 ELSE 10 * Pow10(k - 1)

RECURSIVE Padded(_, _)
\* the digits of n >= 0, left-padded with "0" to the given width
Padded(n, width) ==
    IF width = 0 THEN <<>>
    ELSE Padded(n \div 10, width - 1) \o <<DigitChars[(n % 10) + 1]>>

\* repr of the float m / 10^k (fixed notation: the magnitudes of the model
\* stay inside the range repr prints without an exponent)
FloatText(m, k) ==
    LET a == IF m < 0 THEN -m ELSE m IN
    (IF m < 0 THEN <<"-">> ELSE <<>>)
        \o IntText(a \div Pow10(k)) \o <<".">>
        \o (IF k = 0 THEN <<"0">> ELSE Padded(a % Pow10(k), k))

\* json's escaping of one character of a string
Escaped(c) ==
    CASE c = "\"" -> <<"\\", "\"">>
      [] c = "\\" -> <<"\\", "\\">>
      [] c = "\n" -> <<"\\", "n">>
      [] OTHER    -> <<c>>

RECURSIVE EscapedText(_)
EscapedText(s) == IF s = <<>> THEN <<>> ELSE Escaped(Head(s)) \o EscapedText(Tail(s))

StrText(s) == <<"\"">> \o EscapedText(s) \o <<"\"">>

\* Spaces json.dump puts in front of an item per nesting level
IndentWidth == 4

RECURSIVE Spaces(_)
Spaces(n) == IF n = 0 THEN <<>> ELSE <<" ">> \o Spaces(n - 1)

NewLine(level) == <<"\n">> \o Spaces(IndentWidth * level)

RECURSIVE json_dump(_, _)
RECURSIVE DumpItems(_, _, _)
\* the items of a list or dict, each on a line of its own at the given level
DumpItems(xs, isdict, level) ==
    LET one(x) == IF isdict
                  THEN StrText(x[1].str) \o <<":", " ">> \o json_dump(x[2], level)
                  ELSE json_dump(x, level)
    IN  IF Len(xs) = 1 THEN one(xs[1])
        ELSE one(Head(xs)) \o <<",">> \o NewLine(level)
                 \o DumpItems(Tail(xs), isdict, level)

json_dump(v, level) ==
    CASE v.tag = "None"  -> LitNull
      [] v.tag = "bool"  -> IF v.num = 1 THEN LitTrue ELSE LitFalse
      [] v.tag = "int"   -> IntText(v.num)
      [] v.tag = "float" -> FloatText(v.num, v.scale)
      [] v.tag = "str"   -> StrText(v.str)
      [] v.tag \in {"list", "dict"} ->
            LET open  == IF v.tag = "list" THEN "[" ELSE "{"
                close == IF v.tag = "list" THEN "]" ELSE "}"
            IN  IF v.items = <<>> THEN <<open, close>>
                ELSE <<open>> \o NewLine(level + 1)
                         \o DumpItems(v.items, v.tag = "dict", level + 1)
                         \o NewLine(level) \o <<close>>

----------------------------------------------------------------------------
(* Call frames *)

\* A call of parse_json that has not dispatched yet
JsonFrame ==
    [fn |-> "parse_json", pc |-> "start", end_char |-> "", delimiter |-> "",
     collection |-> Unset, key |-> Unset, loop_index |-> 0]

\* A call of parse_collection after its first two statements.  loop_index
\* records the cursor at the latest test of the while condition (history
\* only: no statement reads it).
CollectionFrame(end_char, delimiter, i) ==
    [fn |-> "parse_collection", pc |-> "loop", end_char |-> end_char,
     delimiter |-> delimiter,
     collection |-> IF end_char = "}" THEN PyDict(<<>>) ELSE PyList(<<>>),
     key |-> Unset, loop_index |-> i]

Top     == Head(stack)
Running == status = "running" /\ stack # <<>>
char    == get_char(json_str, index)

\* collection[key] = value on a dict's items: a present key keeps its place
DictSet(kvs, k, v) ==
    IF \E i \in 1..Len(kvs) : kvs[i][1] = k
    THEN [i \in 1..Len(kvs) |-> IF kvs[i][1] = k THEN <<k, v>> ELSE kvs[i]]
    ELSE Append(kvs, <<k, v>>)

----------------------------------------------------------------------------
(* The input texts *)

Tokens ==
    { <<"[">>, <<"]">>, <<"{">>, <<"}">>, <<",">>, <<" ">>, <<"\"">>,
      <<"-">>, <<"1">>, <<".">>, <<"%">>, <<"a">>, <<"t">>,
      LitTrue, LitFalse, LitNull }

RECURSIVE TokenTexts(_)
\* every concatenation of at most n tokens
TokenTexts(n) ==
    IF n = 0 THEN {<<>>}
    ELSE LET shorter == TokenTexts(n - 1)
         IN  shorter \cup {s \o t : s \in shorter, t \in Tokens}

\* The documents the specification and the claims name
Examples ==
    {
      <<"3">>,
      <<"3", ".", "5">>,
      <<"-", "7">>,
      <<"[", "1", ",", "2", ",", "3", "]">>,
      <<"{", "\"", "a", "\"", ":", "1", ",", "\"", "b", "\"", ":", "2", "}">>,
      <<"{", "\"", "x", "s", "\"", ":", "[", "1", ",", "{", "\"", "y", "\"", ":", "2", "}", "]", "}">>,
      <<"[", "1", ",", "2">>,
      <<"\"", "a", "b", "c">>,
      <<"{", "\"", "a", "\"", ":", "1", ",", "\"", "a", "\"", ":", "2", "}">>,
      <<"[", "{", "}", "]">>,
      <<"[", "1", ",", "%", "]">>,
      <<"1", "-", "2">>,
      <<"1", ".", "2", ".", "3">>,
      <<"1", "2", "a">>,
      <<"[", "[", "1", "]", ",", "[", "t", "r", "u", "e", ",", "\"", "a", "\"", "]", "]">>,
      <<"[", "1", ",", " ", "2", ".", "5", "0", "]">>
    }

----------------------------------------------------------------------------
(* Initial state: a parser constructed on an input, cursor at 0, about to  *)
(* run the outermost parse_json.                                           *)

Fresh(text) ==
    /\ json_input = text
    /\ json_str = text
    /\ index = 0
    /\ stack = <<JsonFrame>>
    /\ ret = Unset
    /\ json_out = Unset
    /\ status = "running"
    /\ err = NoError
    /\ json = Unset
    /\ file = <<>>

\* The input is one of the examples or at most MaxTokens tokens.
Init ==
    \/ \E text \in Examples : Fresh(text) /\ phase = "decode"
    \/ \E s \in TokenTexts(MaxTokens - 1) : \E t \in Tokens \cup {<<>>} :
           Fresh(s \o t) /\ phase = "decode"

----------------------------------------------------------------------------
(* Leaving a call *)

\* return v: the frame is popped; the outermost call's value is the parse's
\* result, which TidyJSON.decode keeps in its json attribute.
Return(v) ==
    /\ stack' = Tail(stack)
    /\ ret' = v
    /\ json_out' = IF Tail(stack) = <<>> THEN v ELSE json_out
    /\ json' = IF Tail(stack) = <<>> /\ phase = "decode" THEN v ELSE json
    /\ status' = IF Tail(stack) = <<>> THEN "returned" ELSE "running"
    /\ err' = err

\* raise e: the frame is left; the exception is in flight until no frame is.
Raise(e) ==
    /\ err' = e
    /\ stack' = Tail(stack)
    /\ status' = IF Tail(stack) = <<>> THEN "raised" ELSE "raising"
    /\ UNCHANGED <<ret, json_out, json>>

\* the end of a scalar parser called as "return parse_map[char]()"
Finish(o) ==
    /\ index' = o.index
    /\ IF o.error = NoError THEN Return(o.value) ELSE Raise(o.error)
    /\ UNCHANGED <<json_input, json_str, phase, file>>

----------------------------------------------------------------------------
(* parse_json: the dispatcher *)

\* dict(zip(strings, parse_funcs)); "absent" when char is no key
parse_map(c) ==
    CASE c = "{"  -> "parse_object"
      [] c = "["  -> "parse_array"
      [] c = "\"" -> "parse_string"
      [] c = "-"  -> "parse_number"
      [] c = "t"  -> "parse_boolean_or_null"
      [] OTHER    -> "absent"

\* What parse_json does on c: the parser it calls, or the exception it ends
\* with (None has no isdigit: AttributeError).
Dispatch(c) ==
    IF parse_map(c) # "absent" THEN parse_map(c)
    ELSE IF c = None THEN "AttributeError"
    ELSE IF isdigit(c) THEN "parse_number"
    ELSE UNEXPECTED_TOKEN

AtDispatch == Running /\ Top.fn = "parse_json"

parse_json_object ==
    /\ AtDispatch /\ Dispatch(char) = "parse_object"
    /\ Finish(parse_object(json_str, index))

\* parse_array calls parse_collection, whose first two statements run here.
parse_json_array ==
    /\ AtDispatch /\ Dispatch(char) = "parse_array"
    /\ index' = index + 1
    /\ stack' = <<CollectionFrame("]", ",", index + 1)>> \o Tail(stack)
    /\ UNCHANGED <<json_input, json_str, ret, json_out, status, err, phase, json, file>>

parse_json_string ==
    /\ AtDispatch /\ Dispatch(char) = "parse_string"
    /\ Finish(parse_string(json_str, index))

parse_json_number ==
    /\ AtDispatch /\ Dispatch(char) = "parse_number"
    /\ Finish(parse_number(json_str, index))

parse_json_boolean_or_null ==
    /\ AtDispatch /\ Dispatch(char) = "parse_boolean_or_null"
    /\ Finish(parse_boolean_or_null(json_str, index))

parse_json_unexpected ==
    /\ AtDispatch /\ Dispatch(char) = UNEXPECTED_TOKEN
    /\ Raise(ErrorManager(UNEXPECTED_TOKEN, index, json_str))
    /\ UNCHANGED <<json_input, json_str, index, phase, file>>

parse_json_end_of_input ==
    /\ AtDispatch /\ Dispatch(char) = "AttributeError"
    /\ Raise(PyException("AttributeError"))
    /\ UNCHANGED <<json_input, json_str, index, phase, file>>

----------------------------------------------------------------------------
(* parse_collection: the loop *)

AtCollection == Running /\ Top.fn = "parse_collection"

\* A mistaken variant: the statement after the loop steps the cursor back
\* instead of past the end character.
parse_collection_loop_backwards ==
    /\ AtCollection /\ Top.pc = "loop"
    /\ Len(Top.collection.items) < MaxElems
    /\ IF char # Top.end_char /\ char # None
       THEN /\ stack' = <<JsonFrame, [Top EXCEPT !.pc = "elem", !.loop_index = index]>>
                            \o Tail(stack)
            /\ UNCHANGED <<index, ret, json_out, status, err, json>>
       ELSE /\ index' = index - 1
            /\ Return(Top.collection)
    /\ UNCHANGED <<json_input, json_str, phase, file>>

\* The while test, then either the call of parse_func (always parse_json) or
\* the two statements after the loop.
parse_collection_loop ==
    /\ AtCollection /\ Top.pc = "loop"
    /\ Len(Top.collection.items) < MaxElems
    /\ IF char # Top.end_char /\ char # None
       THEN /\ stack' = <<JsonFrame, [Top EXCEPT !.pc = "elem", !.loop_index = index]>>
                            \o Tail(stack)
            /\ UNCHANGED <<index, ret, json_out, status, err, json>>
       ELSE /\ index' = index + 1
            /\ Return(Top.collection)
    /\ UNCHANGED <<json_input, json_str, phase, file>>

\* The rest of the loop body once parse_func (pc "elem") or the value's
\* parse_json (pc "value", dicts only) has returned.
parse_collection_store ==
    /\ AtCollection /\ Top.pc \in {"elem", "value"}
    /\ IF Top.collection.tag = "dict" /\ Top.pc = "elem"
       THEN /\ index' = skip_spaces_and_char(json_str, index, Top.delimiter)
            /\ stack' = <<JsonFrame, [Top EXCEPT !.pc = "value", !.key = ret]>>
                            \o Tail(stack)
       ELSE LET items == IF Top.collection.tag = "dict"
                         THEN DictSet(Top.collection.items, Top.key, ret)
                         ELSE Append(Top.collection.items, ret)
            IN  /\ index' = skip_spaces_and_char(json_str, index, ",")
                /\ stack' = <<[Top EXCEPT !.pc = "loop", !.collection.items = items]>>
                                \o Tail(stack)
    /\ UNCHANGED <<json_input, json_str, ret, json_out, status, err, phase, json, file>>

----------------------------------------------------------------------------
(* An exception in flight *)

\* A mistaken variant: the collection parser catches the exception and
\* returns what it has gathered.
propagate_swallowed ==
    /\ status = "raising" /\ stack # <<>>
    /\ stack' = Tail(stack)
    /\ ret' = Top.collection
    /\ json_out' = IF Tail(stack) = <<>> THEN Top.collection ELSE json_out
    /\ status' = IF Tail(stack) = <<>> THEN "returned" ELSE "running"
    /\ err' = NoError
    /\ UNCHANGED <<json_input, json_str, index, phase, json, file>>

\* No function of the parser has a try statement: the exception leaves the
\* next frame too.
propagate ==
    /\ status = "raising" /\ stack # <<>>
    /\ stack' = Tail(stack)
    /\ status' = IF Tail(stack) = <<>> THEN "raised" ELSE "raising"
    /\ UNCHANGED <<json_input, json_str, index, ret, json_out, err, phase, json, file>>

----------------------------------------------------------------------------
(* The facade: write the value, load what was written *)

encode ==
    /\ phase = "decode" /\ status = "returned"
    /\ file' = json_dump(json, 0)
    /\ phase' = "encoded"
    /\ UNCHANGED <<json_input, json_str, index, stack, ret, json_out, status, err, json>>

\* A new parser on the file's text
load_file ==
    /\ phase = "encoded"
    /\ json_str' = file
    /\ index' = 0
    /\ stack' = <<JsonFrame>>
    /\ ret' = Unset
    /\ json_out' = Unset
    /\ status' = "running"
    /\ err' = NoError
    /\ phase' = "reload"
    /\ UNCHANGED <<json_input, json, file>>

----------------------------------------------------------------------------

Next ==
    \/ parse_json_object
    \/ parse_json_array
    \/ parse_json_string
    \/ parse_json_number
    \/ parse_json_boolean_or_null
    \/ parse_json_unexpected
    \/ parse_json_end_of_input
    \/ parse_collection_loop
    \/ parse_collection_store
    \/ propagate
    \/ encode
    \/ load_file

Spec == Init /\ [][Next]_vars

----------------------------------------------------------------------------
(* The diagnostic on its own: an ErrorManager constructed for any position *)
(* of a text.                                                              *)

Letters ==
    <<"a", "b", "c", "d", "e", "f", "g", "h", "i", "j", "k", "l", "m",
      "n", "o", "p", "q", "r", "s", "t", "u", "v", "w", "x", "y", "z">>

\* the first n characters of abc...zabc...
CtxText(n) == [i \in 1..n |-> Letters[((i - 1) % Len(Letters)) + 1]]

InitCtx ==
    \E n \in 0..MaxCtxLen : \E p \in 0..n :
        /\ json_input = CtxText(n)
        /\ json_str = CtxText(n)
        /\ index = p
        /\ stack = <<JsonFrame>>
        /\ ret = Unset
        /\ json_out = Unset
        /\ status = "running"
        /\ err = NoError
        /\ json = Unset
        /\ file = <<>>
        /\ phase = "diagnostic"

\* raise ErrorManager(error_type=..., position=self.index, json_str=self.json_str)
raise_ErrorManager ==
    /\ phase = "diagnostic" /\ Running
    /\ \E error_type \in TidyErrorType :
           Raise(ErrorManager(error_type, index, json_str))
    /\ UNCHANGED <<json_input, json_str, index, phase, file>>

NextCtx == raise_ErrorManager

SpecCtx == InitCtx /\ [][NextCtx]_vars

----------------------------------------------------------------------------
(* Properties *)

Failing  == status \in {"raising", "raised"}
Finished == status \in {"returned", "raised"}

Literals == {LitTrue, LitFalse, LitNull}
LiteralValue(lit) ==
    IF lit = LitTrue THEN PyBool(TRUE)
    ELSE IF lit = LitFalse THEN PyBool(FALSE)
    ELSE PyNone

\* The while test of parse_collection is about to see the end of the input.
AtEndOfInputInCollection ==
    /\ AtCollection /\ Top.pc = "loop"
    /\ char = None

\* C1: a collection whose closing bracket is missing when the input ends
\* fails with Missing Bracket at the cursor position where the end was seen;
\* the elements gathered so far are never returned.
C1_MissingBracket ==
    [][AtEndOfInputInCollection =>
          /\ Failing'
          /\ err' = ErrorManager(MISSING_BRACKET, index, json_str)]_vars

\* A '"' at i with no '"' after it
UnclosedStringAt(s, i) ==
    /\ get_char(s, i) = "\""
    /\ \A j \in (i + 2)..Len(s) : s[j] # "\""

\* C2: a string whose closing quote is missing when the input ends fails with
\* Missing Quote at the current position; the characters scanned so far are
\* never returned as a string.
C2_MissingQuote ==
    [][(AtDispatch /\ UnclosedStringAt(json_str, index)) =>
          /\ Failing'
          /\ err'.error_type = MISSING_QUOTE
          /\ err'.position = index']_vars

\* C3: when the text at the cursor begins with true, false or null, the
\* dispatcher's call returns True, False or None and the cursor advances by
\* exactly the literal's length.
C3_Literals ==
    [][\A lit \in Literals :
          (AtDispatch /\ startswith(json_str, lit, index)) =>
              /\ ~Failing'
              /\ ret' = LiteralValue(lit)
              /\ index' = index + Len(lit)]_vars

Doc_ab == <<"{", "\"", "a", "\"", ":", "1", ",", "\"", "b", "\"", ":", "2", "}">>
Doc_aa == <<"{", "\"", "a", "\"", ":", "1", ",", "\"", "a", "\"", ":", "2", "}">>

\* Well-formed object texts with the mapping each denotes
ObjectCases ==
    { <<Doc_ab, PyDict(<< <<PyStr(<<"a">>), PyInt(1)>>, <<PyStr(<<"b">>), PyInt(2)>> >>)>>,
      <<Doc_aa, PyDict(<< <<PyStr(<<"a">>), PyInt(2)>> >>)>>,
      <<<<"{", "}">>, PyDict(<<>>)>> }

\* C4: at "{" the dispatcher returns a mapping: each key maps to the value of
\* its last occurrence, keys keep insertion order, and the cursor ends just
\* past the closing "}".
C4_Objects ==
    \A c \in ObjectCases :
        (phase = "decode" /\ json_input = c[1] /\ Finished) =>
            /\ status = "returned"
            /\ json_out = c[2]
            /\ index = Len(c[1])

\* The text at i starts a value the dispatcher recognises.
ValueStart(s, i) ==
    \/ get_char(s, i) \in {"{", "[", "\"", "-"}
    \/ isdigit(get_char(s, i))
    \/ \E lit \in Literals : startswith(s, lit, i)

\* C5: wherever the text at the cursor starts no value (the end of the input
\* included) the dispatcher fails with Unexpected Token at the cursor
\* position and leaves the cursor where it was.
C5_UnexpectedToken ==
    [][(AtDispatch /\ ~ValueStart(json_str, index)) =>
          /\ Failing'
          /\ err' = ErrorManager(UNEXPECTED_TOKEN, index, json_str)
          /\ index' = index]_vars

\* C6: the context of a diagnostic at position p of a text is the text's
\* characters from max(0, p - 10) up to, not including, min(length, p + 10):
\* a contiguous piece of the text of at most 20 characters, and the whole
\* text when the text has at most 10 characters.
C6_ContextWindow ==
    (status = "raised" /\ err.error_type \in TidyErrorType) =>
        LET p       == err.position
            n       == Len(json_str)
            lo      == IF p > ContextRadius THEN p - ContextRadius ELSE 0
            hi      == IF p + ContextRadius < n THEN p + ContextRadius ELSE n
            context == err.error_context
        IN  /\ Len(context) = hi - lo
            /\ \A i \in 1..Len(context) : context[i] = json_str[lo + i]
            /\ Len(context) <= 2 * ContextRadius
            /\ (n <= ContextRadius => context = json_str)

\* C6 witness: a diagnostic in the middle of a long text, its context cut
\* off on both sides.
C6_Witness ==
    /\ status = "raised" /\ phase = "diagnostic"
    /\ Len(json_str) > 2 * ContextRadius
    /\ err.position = ContextRadius + 2
    /\ Len(err.error_context) = 2 * ContextRadius
    /\ err.error_context[1] = json_str[3]

\* int() or float() rejects the token parse_number scans at i.
BadNumberAt(s, i) ==
    LET num_str == PySlice(s, i, ScanNumber(s, i))
    IN  IF Dots(num_str) # {} THEN ~float_ok(num_str) ELSE ~int_ok(num_str)

\* C7: a scanned number token that cannot be converted fails with a
\* diagnostic of kind Invalid Character, one of the four declared kinds, and
\* with no other kind of failure.
C7_InvalidCharacter ==
    [][(AtDispatch /\ Dispatch(char) = "parse_number" /\ BadNumberAt(json_str, index)) =>
          /\ Failing'
          /\ err'.error_type = INVALID_CHARACTER]_vars

\* Valid documents of supported constructs among the inputs
ValidDocs ==
    { <<"3">>, <<"3", ".", "5">>, <<"-", "7">>, <<"1">>, LitTrue, <<"[", "]">>,
      <<"\"", "a", "\"">>, <<"[", "1", "]">>,
      <<"[", "1", ",", "2", ",", "3", "]">> }

\* C8: for a valid document of supported constructs, writing the parsed
\* value with the facade's writer and parsing the written text succeeds and
\* gives a value equal to the parsed one.
C8_RoundTrip ==
    (json_input \in ValidDocs /\ phase = "reload" /\ (Finished \/ Failing)) =>
        /\ status = "returned"
        /\ json_out = json

\* C9: every iteration of the collection loop strictly advances the cursor
\* or ends the loop: back at the while test with an element gathered, the
\* cursor is past where the previous test saw it.
C9_LoopAdvances ==
    (AtCollection /\ Top.pc = "loop" /\ Top.collection.items # <<>>) =>
        index > Top.loop_index

Doc_1pct == <<"[", "1", ",", "%", "]">>

\* C10: an exception raised while an element is parsed, at any depth, leaves
\* every enclosing call unchanged in kind and position and becomes the
\* outcome of the parse; no value is delivered ("[1,%]" ends with
\* Unexpected Token at position 3).
C10_FailFast ==
    [][/\ status = "raising" =>
            /\ Failing'
            /\ err' = err
            /\ Len(stack') < Len(stack)
       /\ Failing' => (json_out' = Unset /\ err' # NoError)
       /\ (status' = "raised" /\ phase' = "decode" /\ json_input' = Doc_1pct) =>
            (err'.error_type = UNEXPECTED_TOKEN /\ err'.position = 3)]_vars

\* C10 witness: the diagnostic of the second element of "[1,%]" has left the
\* array's parse_collection and reached the caller.
C10_Witness ==
    /\ status = "raised" /\ phase = "decode"
    /\ json_input = Doc_1pct
    /\ err = ErrorManager(UNEXPECTED_TOKEN, 3, Doc_1pct)
    /\ ret = PyInt(1)
    /\ json_out = Unset

Doc_123    == <<"[", "1", ",", "2", ",", "3", "]">>
Doc_nested == <<"[", "[", "1", "]", ",", "[", "t", "r", "u", "e", ",", "\"", "a", "\"", "]", "]">>

\* Array texts of valid elements separated by "," and closed by "]", with the
\* sequence each denotes
ArrayCases ==
    { <<Doc_123, PyList(<<PyInt(1), PyInt(2), PyInt(3)>>)>>,
      <<<<"[", "]">>, PyList(<<>>)>>,
      <<Doc_nested,
        PyList(<<PyList(<<PyInt(1)>>), PyList(<<PyBool(TRUE), PyStr(<<"a">>)>>)>>)>>,
      <<<<"[">> \o LitFalse \o <<"]">>, PyList(<<PyBool(FALSE)>>)>>,
      <<<<"[">> \o LitNull \o <<"]">>, PyList(<<PyNone>>)>> }

\* C11: for an array text of valid elements separated by "," and closed by
\* "]", the parse returns the elements in source order, one entry per
\* element, nested arrays included, and the cursor ends just past the "]".
C11_Arrays ==
    \A c \in ArrayCases :
        (phase = "decode" /\ json_input = c[1] /\ Finished) =>
            /\ status = "returned"
            /\ json_out = c[2]
            /\ index = Len(c[1])

\* C12: during a parse the cursor is never negative and never moves back:
\* every step of the dispatcher, the collection loop, the scalar parsers and
\* the separator skip, failing ones included, leaves it where it was or
\* further on.  (load_file starts another parse, with its own cursor.)
C12_CursorMonotonic ==
    [][phase' = phase => (index >= 0 /\ index' >= index)]_vars

\* C12 witness: the cursor at the end of "[[1],[true,"a"]]", after the
\* dispatcher, two nested collections, a number, a literal, a string and
\* separator skips have moved it.
C12_Witness ==
    /\ status = "returned" /\ phase = "decode"
    /\ json_input = Doc_nested
    /\ index = Len(Doc_nested)
    /\ json_out.tag = "list"

Doc_mixed == <<"[", "1", ",", " ", "2", ".", "5", "0", "]">>

\* The characters s[i..e-1] hold none of the number parser's terminators and
\* s[e] is one (the end of the input counts as one).
FirstStopAt(s, i, e) ==
    /\ e >= i
    /\ e <= Len(s)
    /\ \A j \in (i + 1)..e : s[j] \notin {",", " ", "}", "]"}
    /\ (e < Len(s) => s[e + 1] \in {",", " ", "}", "]"})

\* The characters s[i..e-1] hold a "."
HoldsDot(s, i, e) == \E j \in (i + 1)..e : s[j] = "."

\* C13: started at "-" or a digit, the number parser consumes the longest run
\* of characters up to, not including, the first of end of input, ",", " ",
\* "}" and "]", and leaves the cursor on that terminator; the value it
\* returns is an integer when the run holds no "." and a float when it holds
\* one ("3" gives 3, "-7" gives -7, "3.5" gives 3.5).
C13_NumberScan ==
    [][(AtDispatch /\ (char = "-" \/ isdigit(char))) =>
          /\ FirstStopAt(json_str, index, index')
          /\ ~Failing' =>
                /\ ret'.tag = IF HoldsDot(json_str, index, index') THEN "float" ELSE "int"
                /\ (json_str = <<"3">>) => ret' = PyInt(3)
                /\ (json_str = <<"-", "7">>) => ret' = PyInt(-7)
                /\ (json_str = <<"3", ".", "5">>) => ret' = PyFloat(35, 1)]_vars

\* C13 witness: in "[1, 2.50]" the number parser has returned 2.5 for the
\* run "2.50" and the cursor is on the "]" that ended the run.
C13_Witness ==
    /\ status = "running" /\ phase = "decode"
    /\ json_input = Doc_mixed
    /\ ret = PyFloat(25, 1)
    /\ index = 8
    /\ char = "]"

====
